---- MODULE Spec2Model ----
(***************************************************************************)
(* Model of lucene-query-string-builder (src/index.js).                    *)
(*                                                                         *)
(* The library is a set of pure string-building functions.  A state of     *)
(* the model is one call of an exported function: the function's name,     *)
(* the argument list it was called with, and the call's outcome (a         *)
(* returned value or a thrown error).  A string returned by one call may   *)
(* be passed as an argument of the next, which is how queries are          *)
(* composed.                                                               *)
(*                                                                         *)
(* JavaScript strings are sequences of one-character strings; error        *)
(* messages, which no function reads back, are TLA+ strings.               *)
(*                                                                         *)
(* callee is the wrapper a call of builder returned, while it is being     *)
(* called; trace lists the calls the wrapper made of the function it       *)
(* wraps.  root is a history variable: the string terms returned at the    *)
(* start of the present chain of compositions.                             *)
(***************************************************************************)
EXTENDS Integers, Sequences, FiniteSets

VARIABLES fn, args, outcome, callee, trace, root

vars == <<fn, args, outcome, callee, trace, root>>

---------------------------------------------------------------------------
(* Bounds of the model *)

\* longest raw text passed to terms
MaxLen == 3
\* longest plain word used as a field name, token or fragment
MaxWordLen == 2
\* most fragments passed to a variadic combinator
MaxArgs == 3
\* longest returned fragment that is passed on to a next call
MaxFragLen == 5

---------------------------------------------------------------------------
(* JavaScript values *)

Undefined == [t |-> "undefined"]
Null == [t |-> "null"]
Bool(b) == [t |-> "boolean", b |-> b]
Str(s) == [t |-> "string", s |-> s]
Obj == [t |-> "object"]
\* an object with the own properties props, and a function known by name
Object(props) == [t |-> "object", props |-> props]
Fun(name) == [t |-> "function", f |-> name]

\* A finite double sign * (hi * 10^8 + lo + (half ? 0.5 : 0)), or NaN, or
\* an infinity.  Two limbs keep Number.MAX_SAFE_INTEGER within TLC's integers.
Fin(neg, hi, lo, half) ==
  [t |-> "number", c |-> "finite", neg |-> neg, hi |-> hi, lo |-> lo, half |-> half]
NaN == [t |-> "number", c |-> "nan", neg |-> FALSE, hi |-> 0, lo |-> 0, half |-> FALSE]
Inf(neg) == [t |-> "number", c |-> "inf", neg |-> neg, hi |-> 0, lo |-> 0, half |-> FALSE]
Whole(n) == Fin(n < 0, 0, IF n < 0 THEN -n ELSE n, FALSE)
Infinity == Inf(FALSE)
MAX_SAFE_INTEGER == Fin(FALSE, 90071992, 54740991, FALSE)

\* typeof
Typeof(v) == IF v.t = "null" THEN "object" ELSE v.t

\* ToBoolean, as the conditional operator applies it
ToBoolean(v) ==
  CASE v.t = "undefined" -> FALSE
    [] v.t = "null" -> FALSE
    [] v.t = "boolean" -> v.b
    [] v.t = "string" -> v.s # <<>>
    [] v.t = "number" -> ~(v.c = "nan" \/ (v.c = "finite" /\ v.hi = 0 /\ v.lo = 0 /\ ~v.half))
    [] OTHER -> TRUE

\* Ordering of numbers: every comparison with NaN is false, -0 equals 0.
IsZero(n) == n.c = "finite" /\ n.hi = 0 /\ n.lo = 0 /\ ~n.half
Level(n) ==
  IF n.c = "inf" THEN (IF n.neg THEN -2 ELSE 2)
  ELSE IF IsZero(n) THEN 0
  ELSE IF n.neg THEN -1 ELSE 1
MagLt(a, b) ==
  \/ a.hi < b.hi
  \/ a.hi = b.hi /\ a.lo < b.lo
  \/ a.hi = b.hi /\ a.lo = b.lo /\ ~a.half /\ b.half
NumLt(a, b) ==
  /\ a.c # "nan"
  /\ b.c # "nan"
  /\ \/ Level(a) < Level(b)
     \/ Level(a) = 1 /\ Level(b) = 1 /\ MagLt(a, b)
     \/ Level(a) = -1 /\ Level(b) = -1 /\ MagLt(b, a)
NumGt(a, b) == NumLt(b, a)
NumGe(a, b) == a.c # "nan" /\ b.c # "nan" /\ ~NumLt(a, b)
NumLe(a, b) == a.c # "nan" /\ b.c # "nan" /\ ~NumLt(b, a)

\* Number::toString for the doubles above (all below 10^21, so no exponent)
Digit(d) == <<"0", "1", "2", "3", "4", "5", "6", "7", "8", "9">>[d + 1]
RECURSIVE IntDigits(_)
IntDigits(k) == IF k < 10 THEN <<Digit(k)>> ELSE IntDigits(k \div 10) \o <<Digit(k % 10)>>
RECURSIVE PadLeft(_, _)
PadLeft(s, width) == IF Len(s) >= width THEN s ELSE PadLeft(<<"0">> \o s, width)
NumberToString(n) ==
  IF n.c = "nan" THEN <<"N", "a", "N">>
  ELSE IF n.c = "inf"
    THEN (IF n.neg THEN <<"-">> ELSE <<>>) \o <<"I", "n", "f", "i", "n", "i", "t", "y">>
  ELSE IF IsZero(n) THEN <<"0">>
  ELSE (IF n.neg THEN <<"-">> ELSE <<>>)
       \o (IF n.hi = 0 THEN IntDigits(n.lo) ELSE IntDigits(n.hi) \o PadLeft(IntDigits(n.lo), 8))
       \o (IF n.half THEN <<".", "5">> ELSE <<>>)

\* ToString, as a template literal and Array.prototype.join apply it
ToString(v) ==
  CASE v.t = "string" -> v.s
    [] v.t = "undefined" -> <<"u", "n", "d", "e", "f", "i", "n", "e", "d">>
    [] v.t = "null" -> <<"n", "u", "l", "l">>
    [] v.t = "boolean" -> IF v.b THEN <<"t", "r", "u", "e">> ELSE <<"f", "a", "l", "s", "e">>
    [] v.t = "number" -> NumberToString(v)
    [] v.t = "object" -> <<"[", "o", "b", "j", "e", "c", "t", " ", "O", "b", "j", "e", "c", "t", "]">>

\* a char sequence as a TLA+ string (for error messages)
RECURSIVE Text(_)
Text(s) == IF s = <<>> THEN "" ELSE Head(s) \o Text(Tail(s))

---------------------------------------------------------------------------
(* Outcomes of a call *)

Ok == [kind |-> "ok"]
Return(v) == [kind |-> "return", value |-> v]
Throw(e, m) == [kind |-> "throw", error |-> e, message |-> m]

\* the i-th parameter of a call: a missing argument reads as undefined
Arg(as, i) == IF i <= Len(as) THEN as[i] ELSE Undefined

---------------------------------------------------------------------------
(* Validation layer *)

\* within that leaves the two bounds out
within_strict(left, right, value) == NumGt(value, left) /\ NumLt(value, right)

within(left, right, value) == NumGe(value, left) /\ NumLe(value, right)

assertString(value, name) ==
  IF Typeof(value) # "string" THEN Throw("TypeError", name \o " should be a string") ELSE Ok

assertFunction(value, name) ==
  IF Typeof(value) # "function" THEN Throw("TypeError", name \o " should be a function") ELSE Ok


\* assertRange without the MAX_SAFE_INTEGER ceiling
assertRange_noceiling(min, max, value, name) ==
  IF Typeof(value) # "number" THEN Throw("TypeError", name \o " should be a number")
  ELSE IF ~within(min, max, value)
    THEN Throw("RangeError", name \o " should be between " \o Text(NumberToString(min))
                                   \o " and " \o Text(NumberToString(max)))
  ELSE Ok

assertRange(min, max, value, name) ==
  IF Typeof(value) # "number" THEN Throw("TypeError", name \o " should be a number")
  ELSE IF NumGt(value, MAX_SAFE_INTEGER)
    THEN Throw("RangeError", name \o " should not exceeed \"Number.MAX_SAFE_INTEGER\"")
  ELSE IF ~within(min, max, value)
    THEN Throw("RangeError", name \o " should be between " \o Text(NumberToString(min))
                                   \o " and " \o Text(NumberToString(max)))
  ELSE Ok

---------------------------------------------------------------------------
(* The escaping collaborator (package lucene-escape-query) *)

\* the characters the Lucene query grammar reserves
Reserved ==
  {"+", "-", "&", "|", "!", "(", ")", "{", "}", "[", "]", "^", "\"", "~", "*", "?", ":", "\\"}

RECURSIVE escape(_)
escape(s) ==
  IF s = <<>> THEN <<>>
  ELSE (IF Head(s) \in Reserved THEN <<"\\", Head(s)>> ELSE <<Head(s)>>) \o escape(Tail(s))

---------------------------------------------------------------------------
(* String-building helpers *)

\* Array.prototype.join: undefined and null elements contribute nothing
Element(v) == IF v.t \in {"undefined", "null"} THEN <<>> ELSE ToString(v)
RECURSIVE JoinLoop(_, _, _, _)
JoinLoop(elements, sep, k, R) ==
  IF k > Len(elements) THEN R
  ELSE JoinLoop(elements, sep, k + 1, R \o sep \o Element(elements[k]))
join(elements, sep) ==
  IF elements = <<>> THEN <<>> ELSE JoinLoop(elements, sep, 2, Element(elements[1]))

\* surrounded(middle)(...as)

\* surrounded joining with the bare keyword, no spaces around it
surrounded_nospace(middle, as) ==
  IF assertString(middle, "middle").kind = "throw" THEN assertString(middle, "middle")
  ELSE Return(Str(join(as, middle.s)))

surrounded(middle, as) ==
  IF assertString(middle, "middle").kind = "throw" THEN assertString(middle, "middle")
  ELSE Return(Str(join(as, <<" ">> \o middle.s \o <<" ">>)))

\* surrounder(open, close)(...as)

\* surrounder without the spaces inside the delimiters
surrounder_tight(open, close, as) ==
  IF assertString(open, "open").kind = "throw" THEN assertString(open, "open")
  ELSE IF assertString(close, "close").kind = "throw" THEN assertString(close, "close")
  ELSE Return(Str(open.s \o join(as, <<" ">>) \o close.s))

surrounder(open, close, as) ==
  IF assertString(open, "open").kind = "throw" THEN assertString(open, "open")
  ELSE IF assertString(close, "close").kind = "throw" THEN assertString(close, "close")
  ELSE Return(Str(open.s \o <<" ">> \o join(as, <<" ">>) \o <<" ">> \o close.s))

---------------------------------------------------------------------------
(* Primitive builders and combinators *)

group(as) == surrounder(Str(<<"(">>), Str(<<")">>), as)


\* terms without the surrounding double quotes
terms_unquoted(as) ==
  LET words == Arg(as, 1) IN
  IF assertString(words, "words").kind = "throw" THEN assertString(words, "words")
  ELSE Return(Str(escape(words.s)))

terms(as) ==
  LET words == Arg(as, 1) IN
  IF assertString(words, "words").kind = "throw" THEN assertString(words, "words")
  ELSE Return(Str(<<"\"">> \o escape(words.s) \o <<"\"">>))


\* boost with the lower bound of fuzzy and proximity (0) instead of 1
boost_min0(as) ==
  LET term == Arg(as, 1)
      b == Arg(as, 2)
  IN
  IF assertString(term, "term").kind = "throw" THEN assertString(term, "term")
  ELSE IF assertRange(Whole(0), Infinity, b, "boost").kind = "throw"
    THEN assertRange(Whole(0), Infinity, b, "boost")
  ELSE Return(Str(ToString(term) \o <<"^">> \o ToString(b)))

boost(as) ==
  LET term == Arg(as, 1)
      b == Arg(as, 2)
  IN
  IF assertString(term, "term").kind = "throw" THEN assertString(term, "term")
  ELSE IF assertRange(Whole(1), Infinity, b, "boost").kind = "throw"
    THEN assertRange(Whole(1), Infinity, b, "boost")
  ELSE Return(Str(ToString(term) \o <<"^">> \o ToString(b)))


\* field escaping the fragment it is given
field_escaping(as) ==
  LET name == Arg(as, 1)
      query == Arg(as, 2)
  IN
  IF assertString(name, "field").kind = "throw" THEN assertString(name, "field")
  ELSE IF assertString(query, "query").kind = "throw" THEN assertString(query, "query")
  ELSE Return(Str(ToString(name) \o <<":", " ">> \o escape(ToString(query))))

field(as) ==
  LET name == Arg(as, 1)
      query == Arg(as, 2)
  IN
  IF assertString(name, "field").kind = "throw" THEN assertString(name, "field")
  ELSE IF assertString(query, "query").kind = "throw" THEN assertString(query, "query")
  ELSE Return(Str(ToString(name) \o <<":", " ">> \o ToString(query)))


\* fuzzy testing the similarity for falsiness instead of counting arguments
fuzzy_falsy(as) ==
  LET term == Arg(as, 1)
      similarity == Arg(as, 2)
  IN
  IF assertString(term, "term").kind = "throw" THEN assertString(term, "term")
  ELSE IF ~ToBoolean(similarity) THEN Return(Str(ToString(term) \o <<"~">>))
  ELSE IF assertRange(Whole(0), Whole(1), similarity, "similarity").kind = "throw"
    THEN assertRange(Whole(0), Whole(1), similarity, "similarity")
  ELSE Return(Str(ToString(term) \o <<"~">> \o ToString(similarity)))

fuzzy(as) ==
  LET term == Arg(as, 1)
      similarity == Arg(as, 2)
  IN
  IF assertString(term, "term").kind = "throw" THEN assertString(term, "term")
  ELSE IF Len(as) = 1 THEN Return(Str(ToString(term) \o <<"~">>))
  ELSE IF assertRange(Whole(0), Whole(1), similarity, "similarity").kind = "throw"
    THEN assertRange(Whole(0), Whole(1), similarity, "similarity")
  ELSE Return(Str(ToString(term) \o <<"~">> \o ToString(similarity)))

proximity(as) ==
  LET first == Arg(as, 1)
      second == Arg(as, 2)
      distance == Arg(as, 3)
  IN
  IF assertString(first, "first").kind = "throw" THEN assertString(first, "first")
  ELSE IF assertString(second, "second").kind = "throw" THEN assertString(second, "second")
  ELSE IF assertRange(Whole(0), Infinity, distance, "distance").kind = "throw"
    THEN assertRange(Whole(0), Infinity, distance, "distance")
  ELSE Return(Str(<<"\"">> \o ToString(first) \o <<" ">> \o ToString(second) \o <<"\"">>
                  \o <<"~">> \o ToString(distance)))


\* range choosing both delimiters from includeLeft
range_oneflag(as) ==
  LET from == Arg(as, 1)
      to == Arg(as, 2)
      includeLeft == Arg(as, 3)
  IN
  IF assertString(from, "from").kind = "throw" THEN assertString(from, "from")
  ELSE IF assertString(from, "to").kind = "throw" THEN assertString(from, "to")
  ELSE surrounder(Str(IF ToBoolean(includeLeft) THEN <<"[">> ELSE <<"{">>),
                  Str(IF ToBoolean(includeLeft) THEN <<"]">> ELSE <<"}">>),
                  <<Str(ToString(from) \o <<" ", "T", "O", " ">> \o ToString(to))>>)

range(as) ==
  LET from == Arg(as, 1)
      to == Arg(as, 2)
      includeLeft == Arg(as, 3)
      includeRight == Arg(as, 4)
  IN
  IF assertString(from, "from").kind = "throw" THEN assertString(from, "from")
  ELSE IF assertString(from, "to").kind = "throw" THEN assertString(from, "to")
  ELSE surrounder(Str(IF ToBoolean(includeLeft) THEN <<"[">> ELSE <<"{">>),
                  Str(IF ToBoolean(includeRight) THEN <<"]">> ELSE <<"}">>),
                  <<Str(ToString(from) \o <<" ", "T", "O", " ">> \o ToString(to))>>)

\* required that escapes its fragment again
required_escaping(as) ==
  LET term == Arg(as, 1) IN
  IF assertString(term, "term").kind = "throw" THEN assertString(term, "term")
  ELSE Return(Str(<<"+">> \o escape(ToString(term))))

required(as) ==
  LET term == Arg(as, 1) IN
  IF assertString(term, "term").kind = "throw" THEN assertString(term, "term")
  ELSE Return(Str(<<"+">> \o ToString(term)))

\* lucene.or, lucene.and, lucene.not
or(as) == surrounded(Str(<<"O", "R">>), as)
and(as) == surrounded(Str(<<"A", "N", "D">>), as)
not(as) == surrounded(Str(<<"N", "O", "T">>), as)

---------------------------------------------------------------------------
(* The builder wrapper *)

\* the wrapper builder returns: (data) => buildFn(data)
Wrapper(buildFn) == [t |-> "function", f |-> "wrapper", buildFn |-> buildFn]

builder(as) ==
  LET buildFn == Arg(as, 1) IN
  IF assertFunction(buildFn, "buildFn").kind = "throw" THEN assertFunction(buildFn, "buildFn")
  ELSE Return(Wrapper(buildFn))

\* data.key: undefined and null have no properties, a missing one reads as
\* undefined
Get(data, key) ==
  IF data.t \in {"undefined", "null"}
  THEN Throw("TypeError", "Cannot read properties of " \o data.t)
  ELSE IF data.t = "object" /\ "props" \in DOMAIN data /\ key \in DOMAIN data.props
    THEN Return(data.props[key])
  ELSE Return(Undefined)

\* the build function of the tests:
\* (data) => l.field(data.hello, l.term(data.world))
helloWorldQuery(data) ==
  LET hello == Get(data, "hello")
      world == Get(data, "world")
  IN
  IF hello.kind = "throw" THEN hello
  ELSE IF world.kind = "throw" THEN world
  ELSE LET term == terms(<<world.value>>) IN
       IF term.kind = "throw" THEN term ELSE field(<<hello.value, term.value>>)

\* the build function of the README:
\* function (data) { return _.group(_.and(
\*   _.field('eye-color', _.term(data.eye.color)),
\*   _.field('age', _.range(data.age.min, data.age.max)))) }
findUserLuceneQueryString(data) ==
  LET eye == Get(data, "eye")
      color == Get(eye.value, "color")
      term == terms(<<color.value>>)
      first == field(<<Str(<<"e", "y", "e", "-", "c", "o", "l", "o", "r">>), term.value>>)
      age == Get(data, "age")
      min == Get(age.value, "min")
      max == Get(age.value, "max")
      rng == range(<<min.value, max.value>>)
      second == field(<<Str(<<"a", "g", "e">>), rng.value>>)
      both == and(<<first.value, second.value>>)
  IN
  IF eye.kind = "throw" THEN eye
  ELSE IF color.kind = "throw" THEN color
  ELSE IF term.kind = "throw" THEN term
  ELSE IF first.kind = "throw" THEN first
  ELSE IF age.kind = "throw" THEN age
  ELSE IF min.kind = "throw" THEN min
  ELSE IF max.kind = "throw" THEN max
  ELSE IF rng.kind = "throw" THEN rng
  ELSE IF second.kind = "throw" THEN second
  ELSE IF both.kind = "throw" THEN both
  ELSE group(<<both.value>>)

\* a call of a function value other than a wrapper
Apply(f, as) ==
  CASE f.f = "helloWorldQuery" -> helloWorldQuery(Arg(as, 1))
    [] f.f = "findUserLuceneQueryString" -> findUserLuceneQueryString(Arg(as, 1))
    [] f.f = "terms" -> terms(as)
    [] f.f = "fuzzy" -> fuzzy(as)
    [] f.f = "identity" -> Return(Arg(as, 1))
    [] f.f = "thrower" -> Throw("Error", "no query")

\* a wrapper calling buildFn with all of its own arguments
wrapperCalls_spread(w, as) == <<[callee |-> w.buildFn, args |-> as]>>

\* the calls a call of the wrapper w makes of the function it wraps
wrapperCalls(w, as) == <<[callee |-> w.buildFn, args |-> <<Arg(as, 1)>>]>>

\* a call of the wrapper w: the outcome of the last call it made
wrapper(w, as) ==
  LET calls == wrapperCalls(w, as) IN Apply(calls[Len(calls)].callee, calls[Len(calls)].args)

---------------------------------------------------------------------------
(* Inputs *)

Alphabet == {"a", " ", "(", ")", "\\"}
WordAlphabet == {"a", "b"}

SeqsUpTo(S, n) == UNION {[1..k -> S] : k \in 0..n}

Texts == {Str(s) : s \in SeqsUpTo(Alphabet, MaxLen)}
Words == {Str(s) : s \in SeqsUpTo(WordAlphabet, MaxWordLen)}

Numbers ==
  {Whole(0), Fin(TRUE, 0, 0, FALSE), Fin(FALSE, 0, 0, TRUE), Whole(1), Fin(FALSE, 0, 1, TRUE),
   Whole(2), Whole(10), Whole(200), Whole(-1), Fin(TRUE, 0, 0, TRUE),
   MAX_SAFE_INTEGER, Fin(FALSE, 90071992, 54740992, FALSE),
   Infinity, Inf(TRUE), NaN}

\* values that are not strings, and values that are not numbers
NonStrings == {Undefined, Null, Bool(TRUE), Bool(FALSE), Obj, Whole(0), Whole(10), Whole(20), NaN}
NonNumbers == {Undefined, Null, Bool(TRUE), Obj, Str(<<>>), Str(<<"1">>)}
\* values passed as the include flags of range
Flags == {Undefined, Null, Bool(TRUE), Bool(FALSE), Whole(0), Whole(1), Str(<<>>), Str(<<"a">>), Obj}

Values == Words \cup NonStrings

\* argument lists of at most n arguments drawn from S
ArgLists(S, n) == SeqsUpTo(S, n)

\* argument lists whose leading arguments come from S (at most n of them) and
\* whose trailing ones, present only when all leading ones are, from T (at most m)
ArgLists2(S, n, T, m) ==
  ArgLists(S, n) \cup {a \o b : a \in [1..n -> S], b \in ArgLists(T, m) \ {<<>>}}

termsInputs == ArgLists(Texts \cup NonStrings, 1)
fieldInputs == ArgLists(Values, 2)
rangeInputs == ArgLists2(Values, 2, Flags, 2)
fuzzyInputs == ArgLists2(Values, 1, Numbers \cup NonNumbers, 2)
proximityInputs == ArgLists2(Values, 2, Numbers \cup NonNumbers, 1)
boostInputs == ArgLists2(Values, 1, Numbers \cup NonNumbers, 1)
requiredInputs == ArgLists(Values, 1)
variadicInputs == ArgLists(Words, MaxArgs)

\* the functions given to builder, and values that are not functions
BuildFunctions ==
  {Fun("helloWorldQuery"), Fun("findUserLuceneQueryString"), Fun("terms"), Fun("fuzzy"),
   Fun("identity"), Fun("thrower")}
NonFunctions == {Undefined, Null, Bool(TRUE), Obj, Whole(1), Str(<<>>), Str(<<"a">>)}
builderInputs == ArgLists(BuildFunctions \cup NonFunctions, 1)

\* the data of the tests and of the README, and other data
HelloData == Object([hello |-> Str(<<"h", "e", "l", "l", "o">>), world |-> Str(<<"w", "o", "r", "l", "d">>)])
ReadmeData ==
  Object([eye |-> Object([color |-> Str(<<"b", "r", "o", "w", "n">>)]),
          age |-> Object([min |-> Whole(10), max |-> Whole(20)])])
StringAgeData ==
  Object([eye |-> Object([color |-> Str(<<"b", "r", "o", "w", "n">>)]),
          age |-> Object([min |-> Str(<<"1", "0">>), max |-> Str(<<"2", "0">>)])])
DataValues ==
  {HelloData, ReadmeData, StringAgeData, Obj, Undefined, Null, Whole(1), Str(<<"a">>),
   Str(<<"(">>)}
wrapperInputs == ArgLists(DataValues, 2)

\* calls of assertRange: the bounds and names the primitives pass, and other
\* bounds, the maximum safe integer and an empty range among them
RangeMins == {Whole(-1), Whole(0), Whole(1), Whole(2)}
RangeMaxs == {Whole(1), Whole(10), MAX_SAFE_INTEGER, Infinity}
ArgumentNames == {Str(<<"b", "o", "o", "s", "t">>), Str(<<"d", "i", "s", "t", "a", "n", "c", "e">>)}
assertRangeInputs ==
  {<<min, max, value, name>> :
     min \in RangeMins, max \in RangeMaxs, value \in Numbers \cup NonNumbers,
     name \in ArgumentNames}

Inputs ==
  termsInputs \cup fieldInputs \cup rangeInputs \cup fuzzyInputs \cup proximityInputs
    \cup boostInputs \cup requiredInputs \cup variadicInputs \cup builderInputs
    \cup assertRangeInputs

\* the fragment the last call returned, when short enough to pass on
Built ==
  IF fn # "none" /\ outcome.kind = "return" /\ outcome.value.t = "string"
     /\ Len(outcome.value.s) <= MaxFragLen
  THEN {outcome.value} ELSE {}

\* the arguments that accompany a passed-on fragment
Companions == {Str(<<"a">>), Whole(1), Undefined}

\* argument lists of exactly n arguments that hold the fragment b
Composed(b, n) ==
  {[as EXCEPT ![i] = b] : as \in [1..n -> Companions], i \in 1..n}
ComposedUpTo(b, n) == UNION {Composed(b, k) : k \in 1..n}

---------------------------------------------------------------------------
(* One action per exported function: the function is applied to the        *)
(* argument list drawn at the start, or to one that holds the fragment     *)
(* the previous call returned.                                             *)

\* the string terms returned at the start of the chain of compositions that
\* the call name, returning result, continues or starts
NextRoot(name, result) ==
  IF ~(result.kind = "return" /\ result.value.t = "string") THEN {}
  ELSE IF name = "terms" THEN {result.value.s}
  ELSE IF fn # "none" THEN root
  ELSE {}

Call(name, as, result) ==
  /\ fn' = name
  /\ args' = as
  /\ outcome' = result
  /\ callee' = Undefined
  /\ trace' = <<>>
  /\ root' = NextRoot(name, result)

Terms ==
  \/ fn = "none" /\ args \in termsInputs /\ Call("terms", args, terms(args))
  \/ \E b \in Built : \E as \in ComposedUpTo(b, 1) : Call("terms", as, terms(as))

Field ==
  \/ fn = "none" /\ args \in fieldInputs /\ Call("field", args, field(args))
  \/ \E b \in Built : \E as \in ComposedUpTo(b, 2) : Call("field", as, field(as))

Range ==
  \/ fn = "none" /\ args \in rangeInputs /\ Call("range", args, range(args))
  \/ \E b \in Built : \E as \in ComposedUpTo(b, 2), flags \in ArgLists({Bool(TRUE), Bool(FALSE)}, 2) :
       /\ flags # <<>> => Len(as) = 2
       /\ Call("range", as \o flags, range(as \o flags))

Fuzzy ==
  \/ fn = "none" /\ args \in fuzzyInputs /\ Call("fuzzy", args, fuzzy(args))
  \/ \E b \in Built : \E as \in ComposedUpTo(b, 2) : Call("fuzzy", as, fuzzy(as))

Proximity ==
  \/ fn = "none" /\ args \in proximityInputs /\ Call("proximity", args, proximity(args))
  \/ \E b \in Built : \E as \in ComposedUpTo(b, 3) : Call("proximity", as, proximity(as))

Boost ==
  \/ fn = "none" /\ args \in boostInputs /\ Call("boost", args, boost(args))
  \/ \E b \in Built : \E as \in ComposedUpTo(b, 2) : Call("boost", as, boost(as))

Required ==
  \/ fn = "none" /\ args \in requiredInputs /\ Call("required", args, required(args))
  \/ \E b \in Built : \E as \in ComposedUpTo(b, 1) : Call("required", as, required(as))

Or ==
  \/ fn = "none" /\ args \in variadicInputs /\ Call("or", args, or(args))
  \/ \E b \in Built : \E as \in ComposedUpTo(b, MaxArgs) : Call("or", as, or(as))

And ==
  \/ fn = "none" /\ args \in variadicInputs /\ Call("and", args, and(args))
  \/ \E b \in Built : \E as \in ComposedUpTo(b, MaxArgs) : Call("and", as, and(as))

Not ==
  \/ fn = "none" /\ args \in variadicInputs /\ Call("not", args, not(args))
  \/ \E b \in Built : \E as \in ComposedUpTo(b, MaxArgs) : Call("not", as, not(as))

Group ==
  \/ fn = "none" /\ args \in variadicInputs /\ Call("group", args, group(args))
  \/ \E b \in Built : \E as \in ComposedUpTo(b, MaxArgs) : Call("group", as, group(as))

Builder ==
  \/ fn = "none" /\ args \in builderInputs /\ Call("builder", args, builder(args))
  \/ \E b \in Built : \E as \in ComposedUpTo(b, 1) : Call("builder", as, builder(as))

\* a call of the wrapper the last call of builder returned
CallWrapper ==
  /\ fn = "builder"
  /\ outcome.kind = "return"
  /\ \E as \in wrapperInputs :
       /\ fn' = "wrapper"
       /\ args' = as
       /\ callee' = outcome.value
       /\ trace' = wrapperCalls(outcome.value, as)
       /\ outcome' = wrapper(outcome.value, as)
       /\ root' = {}

\* a call of assertRange by itself: it returns nothing when it accepts
AssertRange ==
  /\ fn = "none"
  /\ args \in assertRangeInputs
  /\ LET result == assertRange(args[1], args[2], args[3], Text(args[4].s)) IN
     Call("assertRange", args, IF result = Ok THEN Return(Undefined) ELSE result)

Init ==
  /\ fn = "none"
  /\ args \in Inputs
  /\ outcome = [kind |-> "none"]
  /\ callee = Undefined
  /\ trace = <<>>
  /\ root = {}

Next ==
  \/ Terms
  \/ Field
  \/ Range
  \/ Fuzzy
  \/ Proximity
  \/ Boost
  \/ Required
  \/ Or
  \/ And
  \/ Not
  \/ Group
  \/ Builder
  \/ CallWrapper
  \/ AssertRange

Spec == Init /\ [][Next]_vars


---------------------------------------------------------------------------
(* Vocabulary of the properties *)

IsString(v) == v.t = "string"
IsNumber(v) == v.t = "number"
Returned(s) == outcome = Return(Str(s))
Threw(e) == outcome.kind = "throw" /\ outcome.error = e

\* e is w with a backslash put before every reserved character and nothing
\* else changed: read e left to right against w
RECURSIVE IsEscapeOf(_, _)
IsEscapeOf(e, w) ==
  IF w = <<>> THEN e = <<>>
  ELSE IF Head(w) \in Reserved
    THEN Len(e) >= 2 /\ e[1] = "\\" /\ e[2] = Head(w) /\ IsEscapeOf(SubSeq(e, 3, Len(e)), Tail(w))
  ELSE Len(e) >= 1 /\ e[1] = Head(w) /\ IsEscapeOf(Tail(e), Tail(w))

\* the falsy values of JavaScript among the inputs
Falsy ==
  {Undefined, Null, Bool(FALSE), Whole(0), Fin(TRUE, 0, 0, FALSE), NaN, Str(<<>>)}

\* fs with sep between each adjacent pair, built from the right
RECURSIVE Interleaved(_, _)
Interleaved(fs, sep) ==
  IF fs = <<>> THEN <<>>
  ELSE IF Len(fs) = 1 THEN fs[1].s
  ELSE fs[1].s \o sep \o Interleaved(Tail(fs), sep)

AllStrings(as) == \A k \in 1..Len(as) : IsString(as[k])

\* 0 <= d <= Number.MAX_SAFE_INTEGER, and 1 <= d <= Number.MAX_SAFE_INTEGER
UpToMaxSafe(d) ==
  /\ IsNumber(d)
  /\ d.c = "finite"
  /\ \/ d.hi < 90071992
     \/ d.hi = 90071992 /\ d.lo < 54740991
     \/ d.hi = 90071992 /\ d.lo = 54740991 /\ ~d.half
NonNegative(d) == IsNumber(d) /\ d.c # "nan" /\ (~d.neg \/ IsZero(d))
AtLeastOne(d) == IsNumber(d) /\ d.c # "nan" /\ ~d.neg /\ (d.c = "inf" \/ d.hi > 0 \/ d.lo >= 1)

---------------------------------------------------------------------------
(* C1 *)

\* C1: for every string w, terms(w) (term and phrase are the same function)
\* returns a double quote, w with every reserved character preceded by a
\* backslash and every other character unchanged and in order, and a double
\* quote; for every non-string w it throws a TypeError.
C1_TermsQuotesEscaped ==
  fn = "terms" =>
    LET w == Arg(args, 1) IN
    IF IsString(w)
    THEN /\ outcome.kind = "return"
         /\ IsString(outcome.value)
         /\ LET r == outcome.value.s IN
            /\ Len(r) >= 2
            /\ r[1] = "\""
            /\ r[Len(r)] = "\""
            /\ IsEscapeOf(SubSeq(r, 2, Len(r) - 1), w.s)
    ELSE Threw("TypeError")

C1_Witness ==
  /\ fn = "terms"
  /\ args = <<Str(<<"(", ")">>)>>
  /\ Returned(<<"\"", "\\", "(", "\\", ")", "\"">>)

---------------------------------------------------------------------------
(* C2 *)

\* C2: for all strings a and b, range(a, b, includeLeft, includeRight)
\* returns "<L> a TO b <R>", L being "[" when includeLeft is truthy and "{"
\* when it is falsy or omitted, R being "]" when includeRight is truthy and
\* "}" when it is falsy or omitted, each side chosen on its own.
C2_RangeDelimiters ==
  (fn = "range" /\ IsString(Arg(args, 1)) /\ IsString(Arg(args, 2))) =>
    LET L == IF Arg(args, 3) \in Falsy THEN <<"{">> ELSE <<"[">>
        R == IF Arg(args, 4) \in Falsy THEN <<"}">> ELSE <<"]">>
    IN Returned(L \o <<" ">> \o args[1].s \o <<" ", "T", "O", " ">> \o args[2].s \o <<" ">> \o R)

C2_Witness ==
  /\ fn = "range"
  /\ args = <<Str(<<"a">>), Str(<<"b">>), Bool(TRUE)>>
  /\ Returned(<<"[", " ", "a", " ", "T", "O", " ", "b", " ", "}">>)

---------------------------------------------------------------------------
(* C3 *)

\* C3: every call of range in which from is not a string or to is not a
\* string throws a TypeError and returns no string.
C3_RangeRejectsNonStringBounds ==
  (fn = "range" /\ (~IsString(Arg(args, 1)) \/ ~IsString(Arg(args, 2)))) => Threw("TypeError")

---------------------------------------------------------------------------
(* C4 *)

\* C4: for every string term, fuzzy(term) with exactly one argument returns
\* term and "~"; fuzzy(term, s) with a number s in [0, 1] returns term, "~"
\* and s (so fuzzy(term, 0) is "term~0"); with a number s outside [0, 1] it
\* throws a RangeError.
C4_FuzzySimilarity ==
  (fn = "fuzzy" /\ IsString(Arg(args, 1))) =>
    LET term == args[1].s
        s == Arg(args, 2)
    IN
    /\ Len(args) = 1 => Returned(term \o <<"~">>)
    /\ (Len(args) >= 2 /\ s \in {Whole(0), Fin(TRUE, 0, 0, FALSE)}) => Returned(term \o <<"~", "0">>)
    /\ (Len(args) >= 2 /\ s = Fin(FALSE, 0, 0, TRUE)) => Returned(term \o <<"~", "0", ".", "5">>)
    /\ (Len(args) >= 2 /\ s = Whole(1)) => Returned(term \o <<"~", "1">>)
    /\ (Len(args) >= 2 /\ IsNumber(s)
          /\ s \notin {Whole(0), Fin(TRUE, 0, 0, FALSE), Fin(FALSE, 0, 0, TRUE), Whole(1)})
         => Threw("RangeError")

C4_Witness ==
  /\ fn = "fuzzy"
  /\ args = <<Str(<<"a">>), Whole(0)>>
  /\ Returned(<<"a", "~", "0">>)

---------------------------------------------------------------------------
(* C5 *)

\* C5: for every string term, fuzzy(term), fuzzy(term, undefined) and
\* fuzzy(term, null) all return term and "~", and none throws.
C5_FuzzyNullishIsAbsent ==
  (/\ fn = "fuzzy"
   /\ IsString(Arg(args, 1))
   /\ Len(args) <= 2
   /\ Arg(args, 2) \in {Undefined, Null}) => Returned(args[1].s \o <<"~">>)

---------------------------------------------------------------------------
(* C6 *)

\* C6 as stated: for all strings first and second and every finite number
\* distance >= 0, proximity(first, second, distance) returns
\* "first second" in double quotes, "~" and distance.
C6_ProximityAnyFiniteDistance ==
  (/\ fn = "proximity"
   /\ IsString(Arg(args, 1))
   /\ IsString(Arg(args, 2))
   /\ IsNumber(Arg(args, 3))
   /\ Arg(args, 3).c = "finite"
   /\ NonNegative(Arg(args, 3)))
    => Returned(<<"\"">> \o args[1].s \o <<" ">> \o args[2].s \o <<"\"", "~">>
                \o NumberToString(args[3]))

\* C6 amended: for all strings first and second and every number distance
\* with 0 <= distance <= Number.MAX_SAFE_INTEGER, proximity returns
\* "first second" in double quotes, "~" and distance; it throws a TypeError
\* when first or second is not a string (or missing) or distance is not a
\* number (or missing); and, first and second being strings, a RangeError
\* when distance is negative, -Infinity, Infinity, NaN or greater than
\* Number.MAX_SAFE_INTEGER.
C6_ProximityUpToMaxSafe ==
  fn = "proximity" =>
    LET first == Arg(args, 1)
        second == Arg(args, 2)
        distance == Arg(args, 3)
    IN
    IF ~IsString(first) \/ ~IsString(second) \/ ~IsNumber(distance) THEN Threw("TypeError")
    ELSE IF NonNegative(distance) /\ UpToMaxSafe(distance)
      THEN Returned(<<"\"">> \o first.s \o <<" ">> \o second.s \o <<"\"", "~">>
                    \o NumberToString(distance))
    ELSE Threw("RangeError")

C6_Witness ==
  /\ fn = "proximity"
  /\ args = <<Str(<<"a">>), Str(<<"b">>), Whole(10)>>
  /\ Returned(<<"\"", "a", " ", "b", "\"", "~", "1", "0">>)

---------------------------------------------------------------------------
(* C7 *)

\* C7: for or, and, not and every sequence of string fragments, the result
\* is the fragments in argument order with " OR ", " AND ", " NOT " between
\* each adjacent pair and nothing before, after or around them; no argument
\* gives the empty string and one argument gives that argument; none throws.
C7_OperatorsInterleave ==
  /\ (fn = "or" /\ AllStrings(args)) => Returned(Interleaved(args, <<" ", "O", "R", " ">>))
  /\ (fn = "and" /\ AllStrings(args)) => Returned(Interleaved(args, <<" ", "A", "N", "D", " ">>))
  /\ (fn = "not" /\ AllStrings(args)) => Returned(Interleaved(args, <<" ", "N", "O", "T", " ">>))
  /\ (fn \in {"or", "and", "not"} /\ args = <<>>) => Returned(<<>>)
  /\ (fn \in {"or", "and", "not"} /\ Len(args) = 1 /\ AllStrings(args)) => outcome = Return(args[1])

C7_Witness ==
  /\ fn = "and"
  /\ args = <<Str(<<"a">>), Str(<<"b">>), Str(<<"a", "b">>)>>
  /\ Returned(<<"a", " ", "A", "N", "D", " ", "b", " ", "A", "N", "D", " ", "a", "b">>)

---------------------------------------------------------------------------
(* C8 *)

\* C8: for every sequence of string fragments, group returns "(", a space,
\* the fragments in argument order joined by single spaces, a space, ")".
C8_GroupSurrounds ==
  (fn = "group" /\ AllStrings(args)) =>
    Returned(<<"(", " ">> \o Interleaved(args, <<" ">>) \o <<" ", ")">>)

C8_Witness ==
  /\ fn = "group"
  /\ args = <<Str(<<"a">>), Str(<<"b">>), Str(<<"a", "b">>)>>
  /\ Returned(<<"(", " ", "a", " ", "b", " ", "a", "b", " ", ")">>)

---------------------------------------------------------------------------
(* C9 *)

\* C9: for all strings name and fragment, field(name, fragment) returns
\* name, ": " and fragment, neither escaped or altered; if name or fragment
\* is not a string it throws a TypeError.
C9_FieldVerbatim ==
  fn = "field" =>
    IF IsString(Arg(args, 1)) /\ IsString(Arg(args, 2))
    THEN Returned(args[1].s \o <<":", " ">> \o args[2].s)
    ELSE Threw("TypeError")

\* field('a', terms('b')): the quotes of the fragment stay as they are
C9_Witness ==
  /\ fn = "field"
  /\ args = <<Str(<<"a">>), Str(<<"\"", "b", "\"">>)>>
  /\ Returned(<<"a", ":", " ", "\"", "b", "\"">>)

---------------------------------------------------------------------------
(* C10 *)

\* C10 as stated: for every string term and every number b >= 1, with no
\* upper bound, boost(term, b) returns term, "^" and b.
C10_BoostUnbounded ==
  (fn = "boost" /\ IsString(Arg(args, 1)) /\ AtLeastOne(Arg(args, 2)))
    => Returned(args[1].s \o <<"^">> \o NumberToString(args[2]))

\* C10 amended: for every string term and every number b with
\* 1 <= b <= Number.MAX_SAFE_INTEGER, boost(term, b) returns term, "^" and
\* b; for a string term and a number b that is below 1, NaN or above
\* Number.MAX_SAFE_INTEGER (Infinity included) it throws a RangeError; for a
\* non-number b or a non-string term it throws a TypeError.
C10_BoostUpToMaxSafe ==
  fn = "boost" =>
    LET term == Arg(args, 1)
        b == Arg(args, 2)
    IN
    IF ~IsString(term) \/ ~IsNumber(b) THEN Threw("TypeError")
    ELSE IF AtLeastOne(b) /\ UpToMaxSafe(b)
      THEN Returned(term.s \o <<"^">> \o NumberToString(b))
    ELSE Threw("RangeError")

\* boost('a', Number.MAX_SAFE_INTEGER)
C10_Witness ==
  /\ fn = "boost"
  /\ args = <<Str(<<"a">>), MAX_SAFE_INTEGER>>
  /\ Returned(<<"a", "^", "9", "0", "0", "7", "1", "9", "9", "2", "5", "4", "7", "4", "0", "9", "9", "1">>)


---------------------------------------------------------------------------
(* C11 *)

\* C11: for every callable fn, builder(fn) returns a callable w, without
\* calling fn, such that w(data) calls fn exactly once, with data, and
\* returns exactly what fn(data) returns or throws exactly what it throws;
\* for every non-callable argument builder throws a TypeError and returns no
\* wrapper.
C11_BuilderWrapsUnchanged ==
  /\ fn = "builder" =>
       IF Arg(args, 1).t = "function"
       THEN /\ outcome.kind = "return"
            /\ outcome.value.t = "function"
            /\ outcome.value.buildFn = args[1]
            /\ trace = <<>>
       ELSE Threw("TypeError")
  /\ fn = "wrapper" =>
       /\ callee.buildFn \in BuildFunctions
       /\ trace = <<[callee |-> callee.buildFn, args |-> <<Arg(args, 1)>>]>>
       /\ outcome = Apply(callee.buildFn, <<Arg(args, 1)>>)

\* the test 'builder': helloWorldQuery({hello: 'hello', world: 'world'})
C11_Witness ==
  /\ fn = "wrapper"
  /\ callee = Wrapper(Fun("helloWorldQuery"))
  /\ args = <<HelloData>>
  /\ Returned(<<"h", "e", "l", "l", "o", ":", " ", "\"", "w", "o", "r", "l", "d", "\"">>)

---------------------------------------------------------------------------
(* C12 *)

\* C12: range accepts numeric bounds as the README shows: range(10, 20)
\* returns "{ 10 TO 20 }" without throwing, and the README's builder example
\* called with age {min: 10, max: 20} returns a query string, not an error.
C12_RangeAcceptsNumbers ==
  /\ (fn = "range" /\ args = <<Whole(10), Whole(20)>>)
       => Returned(<<"{", " ", "1", "0", " ", "T", "O", " ", "2", "0", " ", "}">>)
  /\ (fn = "wrapper" /\ callee = Wrapper(Fun("findUserLuceneQueryString")) /\ args = <<ReadmeData>>)
       => (outcome.kind = "return" /\ IsString(outcome.value))


---------------------------------------------------------------------------
(* The numbers of the inputs in increasing order (NaN has no place) *)

Ordered ==
  <<{Inf(TRUE)}, {Whole(-1)}, {Fin(TRUE, 0, 0, TRUE)}, {Whole(0), Fin(TRUE, 0, 0, FALSE)},
    {Fin(FALSE, 0, 0, TRUE)}, {Whole(1)}, {Fin(FALSE, 0, 1, TRUE)}, {Whole(2)}, {Whole(10)},
    {Whole(20)}, {Whole(200)}, {MAX_SAFE_INTEGER}, {Fin(FALSE, 90071992, 54740992, FALSE)},
    {Infinity}>>
Rank(n) == CHOOSE i \in 1..Len(Ordered) : n \in Ordered[i]

\* lo <= v <= hi and v <= Number.MAX_SAFE_INTEGER
InRange(lo, hi, v) ==
  /\ IsNumber(v)
  /\ v # NaN
  /\ Rank(lo) <= Rank(v)
  /\ Rank(v) <= Rank(hi)
  /\ Rank(v) <= Rank(MAX_SAFE_INTEGER)

---------------------------------------------------------------------------
(* C13 *)

\* what each primitive requires of its arguments, in positional order: the
\* parameter's name, its type and, for a number, its bounds
StringParam(name) == [name |-> name, type |-> "string"]
NumberParam(name, lo, hi) == [name |-> name, type |-> "number", lo |-> lo, hi |-> hi]
Params(f, n) ==
  CASE f = "terms" -> <<StringParam("words")>>
    [] f = "field" -> <<StringParam("field"), StringParam("query")>>
    [] f = "range" -> <<StringParam("from"), StringParam("to")>>
    [] f = "fuzzy" ->
         IF n <= 1 THEN <<StringParam("term")>>
         ELSE <<StringParam("term"), NumberParam("similarity", Whole(0), Whole(1))>>
    [] f = "proximity" ->
         <<StringParam("first"), StringParam("second"), NumberParam("distance", Whole(0), Infinity)>>
    [] f = "boost" -> <<StringParam("term"), NumberParam("boost", Whole(1), Infinity)>>
    [] f = "required" -> <<StringParam("term")>>
    [] f = "builder" -> <<[name |-> "buildFn", type |-> "function"]>>

\* the error an argument v of parameter p calls for, "none" when v is valid
ErrorFor(p, v) ==
  IF Typeof(v) # p.type THEN "TypeError"
  ELSE IF p.type = "number" /\ ~InRange(p.lo, p.hi, v) THEN "RangeError"
  ELSE "none"

Primitives == {"terms", "field", "range", "fuzzy", "proximity", "boost", "required", "builder"}

\* C13: a call of a primitive with at least one invalid argument returns
\* nothing, and throws the error of the first invalid argument in positional
\* order, a TypeError for a wrong type coming before a RangeError.
C13_FirstInvalidArgumentThrows ==
  fn \in Primitives =>
    LET ps == Params(fn, Len(args))
        bad == {k \in 1..Len(ps) : ErrorFor(ps[k], Arg(args, k)) # "none"}
    IN
    bad # {} =>
      LET k == CHOOSE j \in bad : \A l \in bad : j <= l IN
      Threw(ErrorFor(ps[k], Arg(args, k)))

---------------------------------------------------------------------------
(* C14 *)

\* C14: assertRange throws a TypeError for a value that is not a number;
\* for a number it throws a RangeError when the value is above
\* Number.MAX_SAFE_INTEGER, below min or above max, or NaN; it accepts
\* exactly the numbers with min <= value <= max and value <=
\* MAX_SAFE_INTEGER, the bounds and MAX_SAFE_INTEGER among them.
C14_AssertRangeAcceptsExactlyTheRange ==
  fn = "assertRange" =>
    LET min == args[1]
        max == args[2]
        value == args[3]
    IN
    /\ ~IsNumber(value) => Threw("TypeError")
    /\ IsNumber(value) /\ ~InRange(min, max, value) => Threw("RangeError")
    /\ InRange(min, max, value) <=> outcome = Return(Undefined)
    /\ value = min /\ Rank(min) <= Rank(max) => outcome = Return(Undefined)
    /\ value = max /\ Rank(min) <= Rank(max) /\ max # Infinity => outcome = Return(Undefined)
    /\ value = Infinity => Threw("RangeError")

\* assertRange(1, Infinity, Number.MAX_SAFE_INTEGER, name) accepts, and so
\* does a call whose value is its lower bound
C14_Witness ==
  /\ fn = "assertRange"
  /\ args[1] = Whole(1)
  /\ args[2] = Infinity
  /\ args[3] = MAX_SAFE_INTEGER
  /\ outcome = Return(Undefined)

---------------------------------------------------------------------------
(* C15 *)

\* q occurs in r as a contiguous run of characters
IsSubstring(q, r) ==
  \E i \in 0..(Len(r) - Len(q)) : SubSeq(r, i + 1, i + Len(q)) = q

\* the arguments of the last call that are fragments: the query of field,
\* the term of boost and of fuzzy, every argument of group, or, and, not
Fragments ==
  CASE fn = "field" -> {Arg(args, 2)}
    [] fn \in {"boost", "fuzzy", "required"} -> {Arg(args, 1)}
    [] fn \in {"group", "or", "and", "not"} -> {args[k] : k \in 1..Len(args)}
    [] OTHER -> {}

\* C15: a fragment is never escaped again or altered when composed:
\* required(q) is "+" followed by q; every string q passed as the query of
\* field, the term of boost or fuzzy, or an argument of group, or, and, not
\* occurs unchanged in the string returned; and the string terms returned
\* occurs unchanged in every string composed from it, at any depth.
C15_FragmentsUnaltered ==
  /\ fn = "required" /\ IsString(Arg(args, 1)) => Returned(<<"+">> \o args[1].s)
  /\ \A q \in Fragments :
       IsString(q) /\ outcome.kind = "return" =>
         /\ IsString(outcome.value)
         /\ IsSubstring(q.s, outcome.value.s)
  /\ \A r \in root :
       /\ outcome.kind = "return"
       /\ IsString(outcome.value)
       /\ IsSubstring(r, outcome.value.s)

\* field('a', required(terms('('))): two levels above terms, the escaped
\* parenthesis still as terms wrote it
C15_Witness ==
  /\ fn = "field"
  /\ root = {<<"\"", "\\", "(", "\"">>}
  /\ args = <<Str(<<"a">>), Str(<<"+", "\"", "\\", "(", "\"">>)>>
  /\ Returned(<<"a", ":", " ", "+", "\"", "\\", "(", "\"">>)

====
